---- MODULE Spec2Model ----
(***************************************************************************)
(* Loan prediction app (src/app.py): the Streamlit script as a state       *)
(* machine.  Every browser session runs the script top to bottom on each   *)
(* interaction; sessions run in separate threads and share one file,       *)
(* feedback_results.csv.  A script run is atomic in the model except       *)
(* between a read of the shared file and the write that depends on it      *)
(* (os.path.isfile -> to_csv, read_csv -> to_csv, read_csv -> os.remove),  *)
(* where the other sessions' steps may interleave.                         *)
(*                                                                         *)
(* The CSV file is a sequence of lines, a line a sequence of fields, a     *)
(* field the pair (quoted?, text).  The csv module's quoting of delimiters *)
(* and line breaks inside a quoted field is what makes a field one token.  *)
(***************************************************************************)
EXTENDS Integers, Sequences, FiniteSets, TLC

VARIABLES
    real_password,  \* the admin secret of this deployment (app.py 158-161)
    feature_cols,   \* the trained schema's column list (app.py 44)
    file,           \* feedback_results.csv: [exists, lines]
    clock,          \* datetime.now(), in seconds since the first timestamp
    pass_input,     \* per session: the sidebar password widget's value
    session_state,  \* per session: st.session_state ('res', 'user_data')
    pc,             \* per session: where the running script stands
    local,          \* per session: the running script's local variables
    run,            \* per session: what the last ANALYZE press did
    sidebar,        \* per session: the elements the last run put in the sidebar
    input_data,     \* per session: the last feature dict built (app.py 81-94)
    input_df,       \* per session: the last row handed to model.predict
    hist,           \* history: appends written, clicks, discarded entries
    saved,          \* the frame the last Save Changes wrote
    readBack        \* [done, df]: the admin's read of the log after that Save

vars == <<real_password, feature_cols, file, clock, pass_input, session_state, pc,
          local, run, sidebar, input_data, input_df, hist, saved, readBack>>

Sessions == {"s1", "s2"}

\* ------------------------------------------------------------------ bounds
MaxSubmits == 2
MaxRows == 2

\* ------------------------------------------------------------- cell values
\* A DataFrame cell: text, a number, or NaN (missing).
Str(s) == [t |-> "str", s |-> s, n |-> 0]
Num(n) == [t |-> "num", s |-> "", n |-> n]
NaN == [t |-> "nan", s |-> "", n |-> 0]

cols_order ==
    <<"Timestamp", "User", "Income", "Loan_Amount", "Prediction",
      "Model_Accuracy", "Rating", "Accuracy_Opinion", "Suggestions">>

\* ------------------------------------------------------------- CSV writing
\* csv.QUOTE_NONNUMERIC: every field that is not a number is quoted; a missing
\* value is written as na_rep, the empty string, which is text and so quoted.
Field(q, s) == [q |-> q, s |-> s]

WriteCell(v) ==
    CASE v.t = "num" -> Field(FALSE, ToString(v.n))
      [] v.t = "str" -> Field(TRUE, v.s)
      [] OTHER -> Field(TRUE, "")

HeaderLine(cols) == [j \in 1..Len(cols) |-> Field(TRUE, cols[j])]

\* DataFrame.to_csv(index=False, quoting=csv.QUOTE_NONNUMERIC), with or
\* without the header row.  A frame is [cols, rows], a row one cell per column.
ToCsvLines(df, header) ==
    (IF header THEN <<HeaderLine(df.cols)>> ELSE <<>>)
      \o [i \in 1..Len(df.rows) |->
             [j \in 1..Len(df.cols) |-> WriteCell(df.rows[i][j])]]

Absent == [exists |-> FALSE, lines |-> <<>>]
FileOf(lines) == [exists |-> TRUE, lines |-> lines]

\* to_csv(path): mode 'w' truncates and writes the header and the rows.
WriteNew(df) == FileOf(ToCsvLines(df, TRUE))

\* to_csv(path, mode='a', header=False): the rows go after whatever the file
\* holds; open(path, 'a') creates the file when it is not there.
WriteAppend(f, df) == FileOf(f.lines \o ToCsvLines(df, FALSE))

\* ------------------------------------------------------------- CSV reading
\* Bytes that are not UTF-8: read_csv raises UnicodeDecodeError on them.
BadBytes == "\\xff\\xfe"

\* pandas' default na_values, as far as they are spelled here.
NAStrings == {"", "NA", "N/A", "n/a", "NULL", "null", "NaN", "nan", "None", "<NA>", "#N/A"}

Digits == {"0", "1", "2", "3", "4", "5", "6", "7", "8", "9"}

DigitVal(c) ==
    CASE c = "0" -> 0 [] c = "1" -> 1 [] c = "2" -> 2 [] c = "3" -> 3 [] c = "4" -> 4
      [] c = "5" -> 5 [] c = "6" -> 6 [] c = "7" -> 7 [] c = "8" -> 8 [] OTHER -> 9

IsNumeral(s) == Len(s) > 0 /\ \A i \in 1..Len(s) : SubSeq(s, i, i) \in Digits

RECURSIVE ParseInt(_)
ParseInt(s) ==
    IF Len(s) = 0 THEN 0
    ELSE 10 * ParseInt(SubSeq(s, 1, Len(s) - 1)) + DigitVal(SubSeq(s, Len(s), Len(s)))

\* read_csv raises on a file of no bytes (EmptyDataError) and on undecodable
\* bytes; everything else parses (on_bad_lines='skip').
ReadRaises(f) ==
    \/ Len(f.lines) = 0
    \/ \E i \in 1..Len(f.lines) : \E j \in 1..Len(f.lines[i]) : f.lines[i][j].s = BadBytes

\* The data lines read_csv keeps: a line with more fields than the header is
\* a bad line and is skipped.
DataLines(f) == SelectSeq(Tail(f.lines), LAMBDA ln : Len(ln) <= Len(f.lines[1]))

\* The text of a field as the parser sees it: the quotes are gone, and a line
\* shorter than the header is padded with empty fields.
RawCell(ln, j) == IF j <= Len(ln) THEN ln[j].s ELSE ""

\* Type inference is per column: a column whose non-missing fields are all
\* numerals becomes numeric, any other column keeps its text.
ColumnIsNumeric(lines, j) ==
    \A i \in 1..Len(lines) :
        RawCell(lines[i], j) \in NAStrings \/ IsNumeral(RawCell(lines[i], j))

ParseCell(lines, i, j) ==
    LET raw == RawCell(lines[i], j)
    IN  IF raw \in NAStrings THEN NaN
        ELSE IF ColumnIsNumeric(lines, j) THEN Num(ParseInt(raw))
        ELSE Str(raw)

\* pd.read_csv(path, engine='python', on_bad_lines='skip') on a file that
\* does not make it raise: the first line names the columns.
ReadCsv(f) ==
    LET lines == DataLines(f)
        ncols == Len(f.lines[1])
    IN  [cols |-> [j \in 1..ncols |-> f.lines[1][j].s],
         rows |-> [i \in 1..Len(lines) |-> [j \in 1..ncols |-> ParseCell(lines, i, j)]]]

\* The position of a column in a frame, 0 when the frame has no such column.
ColumnIndex(cols, name) ==
    IF \E j \in 1..Len(cols) : cols[j] = name
    THEN CHOOSE j \in 1..Len(cols) :
             cols[j] = name /\ \A k \in 1..(j - 1) : cols[k] # name
    ELSE 0

\* df.reindex(columns=cols): exactly the columns asked for, in that order; a
\* column the frame does not have is filled with `fill`.
Reindex(df, cols, fill) ==
    LET at == [j \in 1..Len(cols) |-> ColumnIndex(df.cols, cols[j])]
    IN  [cols |-> cols,
         rows |-> [i \in 1..Len(df.rows) |->
                      [j \in 1..Len(cols) |->
                          IF at[j] = 0 THEN fill ELSE df.rows[i][at[j]]]]]

\* The admin's view of the log (app.py 169-171).
ReadAll(f) == Reindex(ReadCsv(f), cols_order, NaN)

\* ------------------------------------------------------- feature transform
\* A feature value: the rational a/b, or log1p of it (numpy.log1p is kept as
\* a term: the model never needs its digits).
FNum(a, b) == [k |-> "num", a |-> a, b |-> b]
FLog1p(a, b) == [k |-> "log1p", a |-> a, b |-> b]
Indicator(c) == FNum(IF c THEN 1 ELSE 0, 1)

\* The selectbox options of the form (app.py 57-70).
GenderOptions == {"Male", "Female"}
MarriedOptions == {"Yes", "No"}
DependentsOptions == {"0", "1", "2", "3+"}
CreditOptions == {"Good", "Poor"}
AreaOptions == {"Urban", "Semiurban", "Rural"}
EducationOptions == {"Graduate", "Not Graduate"}
SelfEmployedOptions == {"Yes", "No"}

\* app.py 64: ch_val = 1.0 if credit_history == "Good" else 0.0
ChVal(credit_history) == IF credit_history = "Good" THEN 1 ELSE 0

\* A variant whose Urban indicator is set for every area but Rural.
PropertyAreaIndicators_NotRural(property_area) ==
    <<<<"Property_Area_Semiurban", Indicator(property_area = "Semiurban")>>,
      <<"Property_Area_Urban", Indicator(property_area # "Rural")>>>>

\* app.py 90-91
PropertyAreaIndicators(property_area) ==
    <<<<"Property_Area_Semiurban", Indicator(property_area = "Semiurban")>>,
      <<"Property_Area_Urban", Indicator(property_area = "Urban")>>>>

\* app.py 92-93
DependentsIndicators(dependents) ==
    <<<<"Dependents_1", Indicator(dependents = "1")>>,
      <<"Dependents_2", Indicator(dependents = "2")>>,
      <<"Dependents_3+", Indicator(dependents = "3+")>>>>

\* app.py 78-94: the dict input_data, its keys in insertion order.
InputData(f) ==
    LET total_income == f.income + f.co_income
    IN  <<<<"ApplicantIncome", FNum(f.income, 1)>>,
          <<"CoapplicantIncome", FNum(f.co_income, 1)>>,
          <<"LoanAmount", FNum(f.loan_pkr, 1000)>>,
          <<"Loan_Amount_Term", FNum(f.term * 12, 1)>>,
          <<"Credit_History", FNum(ChVal(f.credit_history), 1)>>,
          <<"TotalIncome", FNum(total_income, 1)>>,
          <<"Income_to_Loan", FNum(total_income, f.loan_pkr + 1)>>,
          <<"log_ApplicantIncome", FLog1p(f.income, 1)>>,
          <<"log_LoanAmount", FLog1p(f.loan_pkr, 1000)>>,
          <<"log_TotalIncome", FLog1p(total_income, 1)>>,
          <<"Gender_Male", Indicator(f.gender = "Male")>>,
          <<"Married_Yes", Indicator(f.married = "Yes")>>,
          <<"Education_Not Graduate", Indicator(f.education = "Not Graduate")>>,
          <<"Self_Employed_Yes", Indicator(f.self_emp = "Yes")>>>>
        \o PropertyAreaIndicators(f.property_area)
        \o DependentsIndicators(f.dependents)

\* pd.DataFrame([input_data]): one row, the dict's keys as the columns.
FrameOfDict(d) ==
    [cols |-> [j \in 1..Len(d) |-> d[j][1]], rows |-> <<[j \in 1..Len(d) |-> d[j][2]]>>]

\* A variant that hands the frame to the model without reindexing it.
InputDf_NoReindex(d, schema) == FrameOfDict(d)

\* app.py 96
InputDf(d, schema) == Reindex(FrameOfDict(d), schema, FNum(0, 1))

StartsWith(s, p) == Len(s) >= Len(p) /\ SubSeq(s, 1, Len(p)) = p

\* app.py 36-41: the schema is the data file's header without the label column(s).
LoadAssets(all_cols) == SelectSeq(all_cols, LAMBDA c : ~StartsWith(c, "Loan_Status"))

\* The columns the transform produces, in the dict's order.
ProducedCols == FrameOfDict(InputData(
    [gender |-> "Male", married |-> "Yes", dependents |-> "0", education |-> "Graduate",
     self_emp |-> "Yes", property_area |-> "Urban", credit_history |-> "Good",
     income |-> 0, co_income |-> 0, loan_pkr |-> 10000, term |-> 1])).cols

\* Headers cleaned_loan_data.csv may have: the transform's own columns plus the
\* label; a file with drifted columns (some not produced, some produced ones
\* missing, another order); a file with nothing but the label.
DataFileHeaders ==
    { ProducedCols \o <<"Loan_Status">>,
      <<"Loan_Status_Y", "Property_Area_Urban", "Property_Area_Rural", "Credit_History",
        "Dependents_3+", "Dependents_0", "ApplicantIncome", "Gender_Male",
        "Property_Area_Semiurban", "Loan_Amount_Term_Bucket">>,
      <<"Dependents_2", "Dependents_1", "Self_Employed_Yes", "Loan_Status",
        "Education_Not Graduate", "Married_Yes", "log_LoanAmount", "Income_to_Loan">>,
      <<"Loan_Status">> }

\* The widget defaults (app.py 57-70).
DefaultForm ==
    [gender |-> "Male", married |-> "Yes", dependents |-> "0", education |-> "Graduate",
     self_emp |-> "Yes", property_area |-> "Urban", credit_history |-> "Good",
     income |-> 75000, co_income |-> 0, loan_pkr |-> 500000, term |-> 15]

AllForms ==
    [gender : GenderOptions, married : MarriedOptions, dependents : DependentsOptions,
     education : EducationOptions, self_emp : SelfEmployedOptions,
     property_area : AreaOptions, credit_history : CreditOptions,
     income : {75000}, co_income : {0}, loan_pkr : {500000}, term : {15}]

\* str.strip() for the blank the form can hold.
RECURSIVE LStrip(_)
LStrip(s) == IF Len(s) > 0 /\ SubSeq(s, 1, 1) = " " THEN LStrip(SubSeq(s, 2, Len(s))) ELSE s
RECURSIVE RStrip(_)
RStrip(s) ==
    IF Len(s) > 0 /\ SubSeq(s, Len(s), Len(s)) = " " THEN RStrip(SubSeq(s, 1, Len(s) - 1))
    ELSE s
Strip(s) == LStrip(RStrip(s))

\* A variant that tests the name without stripping it.
NameMissing_NoStrip(user_name) == user_name = ""

\* app.py 75: `not user_name.strip()`
NameMissing(user_name) == Strip(user_name) = ""

\* app.py 104
ResText(prediction) == IF prediction = 1 THEN "APPROVED" ELSE "REJECTED"

\* ------------------------------------------------------------ the sessions
Passwords == {"", "admin123", "s3cret"}

\* app.py 158-161: the deployment's secret, or the fallback when none is set.
Secrets == {"admin123", "s3cret"}

Names == {"", "  ", " Al", "Al"}
Suggestions == {"slow, but ok"}

\* round(confidence * 100, 2), in hundredths of a percent.
Confidences == {8750}

\* datetime.now().strftime("%Y-%m-%d %H:%M:%S") at second t of the run.
Timestamp(t) == "2024-05-01 10:00:0" \o ToString(t)

NoRun == [click |-> "none", name |-> "", predicted |-> FALSE, stored |-> FALSE, msg |-> ""]
Result == "result"
NoFrame == [cols |-> <<>>, rows |-> <<>>]
NoLocal == [new_df |-> NoFrame, isfile |-> FALSE, edited_df |-> NoFrame, seen |-> 0]
NoState ==
    [has_res |-> FALSE, res |-> "",
     user_data |-> [name |-> "", income |-> 0, loan |-> 0, conf |-> 0]]

\* A variant that also lets the fallback literal in when a secret is configured.
PasswordOk_FallbackToo(p, secret) == p = secret \/ p = "admin123"

\* app.py 165
PasswordOk(p, secret) == p = secret

\* app.py 165-186 with no button pressed: what the sidebar shows.
AdminSidebar(p, secret, f) ==
    IF ~PasswordOk(p, secret) THEN {}
    ELSE IF ~f.exists THEN {"welcome", "no_records"}
    ELSE IF ReadRaises(f) THEN {"welcome", "file_error", "reset_button"}
    ELSE {"welcome", "total_entries", "editor", "save_button"}

\* A variant that draws the feedback form in every run.
FeedbackFormShown_Always(st) == TRUE

\* app.py 120: the feedback form is drawn only when 'res' is in session_state.
FeedbackFormShown(st) == st.has_res

\* app.py 129-144: new_df, one row in cols_order.
NewDf(st, ts, rating, opinion, sugs) ==
    [cols |-> cols_order,
     rows |-> << <<Str(Timestamp(ts)), Str(st.user_data.name), Num(st.user_data.income),
                   Num(st.user_data.loan), Str(st.res), Num(st.user_data.conf),
                   Num(rating), Str(opinion), Str(sugs)>> >>]

\* The staged edits of st.data_editor(df_admin, num_rows="dynamic").
Edits == {"none", "delete_first"}

ApplyEdit(df, edit) ==
    IF Len(df.rows) = 0 \/ edit = "none" THEN df
    ELSE [df EXCEPT !.rows = Tail(df.rows)]

\* The sidebar text box changes: a script run with no button pressed.
EnterPassword(s, p) ==
    /\ pc[s] = "idle"
    /\ p # pass_input[s]
    /\ pass_input' = [pass_input EXCEPT ![s] = p]
    /\ sidebar' = [sidebar EXCEPT ![s] = AdminSidebar(p, real_password, file)]
    /\ UNCHANGED <<real_password, run, feature_cols, file, clock, session_state, pc, local,
                   input_data, input_df, hist, saved, readBack>>

\* app.py 74-117: the ANALYZE ELIGIBILITY button, then the rest of the script.
\* model.predict / predict_proba are the trained artifact's: any label, any
\* confidence.
Analyze(s, user_name, form, prediction, conf) ==
    /\ pc[s] = "idle"
    /\ IF NameMissing(user_name)
       THEN /\ run' = [run EXCEPT ![s] =
                         [click |-> "analyze", name |-> user_name, predicted |-> FALSE,
                          stored |-> FALSE, msg |-> "name_error"]]
            /\ UNCHANGED <<session_state, input_data, input_df, hist>>
       ELSE /\ input_data' = [input_data EXCEPT ![s] = InputData(form)]
            /\ input_df' = [input_df EXCEPT ![s] = InputDf(input_data'[s], feature_cols)]
            /\ session_state' = [session_state EXCEPT ![s] =
                  [has_res |-> TRUE, res |-> ResText(prediction),
                   user_data |-> [name |-> user_name, income |-> form.income,
                                  loan |-> form.loan_pkr, conf |-> conf]]]
            /\ run' = [run EXCEPT ![s] =
                         [click |-> "analyze", name |-> user_name, predicted |-> TRUE,
                          stored |-> TRUE, msg |-> Result]]
            /\ hist' = [hist EXCEPT !.predicted = @ \cup {s}]
    /\ sidebar' = [sidebar EXCEPT ![s] = AdminSidebar(pass_input[s], real_password, file)]
    /\ UNCHANGED <<real_password, feature_cols, file, clock, pass_input, pc, local,
                   saved, readBack>>

\* app.py 128-146: Submit Feedback pressed; the entry is built and
\* os.path.isfile is asked.  The write is the next step.  Every submission
\* falls in a second of its own.
FeedbackSubmit(s, ts, rating, opinion, sugs) ==
    /\ pc[s] = "idle"
    /\ FeedbackFormShown(session_state[s])
    /\ clock < MaxSubmits
    /\ ts = clock
    /\ clock' = clock + 1
    /\ local' = [local EXCEPT ![s] =
                    [NoLocal EXCEPT !.new_df = NewDf(session_state[s], ts, rating, opinion, sugs),
                                    !.isfile = file.exists]]
    /\ pc' = [pc EXCEPT ![s] = "fb_write"]
    /\ UNCHANGED <<real_password, run, feature_cols, file, pass_input, session_state, sidebar,
                   input_data, input_df, hist, saved, readBack>>

\* app.py 146-154: the to_csv call the isfile answer chose, then st.rerun().
FeedbackWrite(s) ==
    /\ pc[s] = "fb_write"
    /\ file' = IF ~local[s].isfile THEN WriteNew(local[s].new_df)
               ELSE WriteAppend(file, local[s].new_df)
    /\ pc' = [pc EXCEPT ![s] = "rerun"]
    /\ hist' = [hist EXCEPT !.appended = Append(@, local[s].new_df.rows[1]),
                            !.writers = @ \cup {s},
                            !.sinceReset = IF @ >= 0 THEN @ + 1 ELSE @]
    /\ UNCHANGED <<real_password, run, feature_cols, clock, pass_input, session_state, local,
                   sidebar, input_data, input_df, saved, readBack>>

\* st.rerun(): the script runs again with no button pressed.
Rerun(s) ==
    /\ pc[s] = "rerun"
    /\ pc' = [pc EXCEPT ![s] = "idle"]
    /\ local' = [local EXCEPT ![s] = NoLocal]
    /\ sidebar' = [sidebar EXCEPT ![s] = AdminSidebar(pass_input[s], real_password, file)]
    /\ UNCHANGED <<real_password, run, feature_cols, file, clock, pass_input, session_state,
                   input_data, input_df, hist, saved, readBack>>

\* app.py 165-176: Save Changes pressed.  The run reads the file again, the
\* editor lays the staged edits over what was read, and the button is true.
\* `seen` records how many appends the file held at this read.
SaveClick(s, edit) ==
    /\ pc[s] = "idle"
    /\ "save_button" \in sidebar[s]
    /\ IF PasswordOk(pass_input[s], real_password) /\ file.exists /\ ~ReadRaises(file)
       THEN /\ local' = [local EXCEPT ![s] =
                           [NoLocal EXCEPT !.edited_df = ApplyEdit(ReadAll(file), edit),
                                           !.seen = Len(hist.appended)]]
            /\ pc' = [pc EXCEPT ![s] = "save_write"]
            /\ UNCHANGED sidebar
       ELSE /\ sidebar' = [sidebar EXCEPT ![s] =
                              AdminSidebar(pass_input[s], real_password, file)]
            /\ UNCHANGED <<local, pc>>
    /\ UNCHANGED <<real_password, run, feature_cols, file, clock, pass_input, session_state,
                   input_data, input_df, hist, saved, readBack>>

\* app.py 177-179: edited_df.to_csv over the whole file, then st.rerun().
SaveWrite(s) ==
    /\ pc[s] = "save_write"
    /\ file' = WriteNew(local[s].edited_df)
    /\ pc' = [pc EXCEPT ![s] = "rerun"]
    /\ hist' = [hist EXCEPT !.discarded = @ \/ Len(hist.appended) > local[s].seen,
                            !.pristine = FALSE,
                            !.sinceReset = -1]
    /\ UNCHANGED <<real_password, run, feature_cols, clock, pass_input, session_state, local,
                   sidebar, input_data, input_df, saved, readBack>>

\* app.py 165-182: Reset File pressed.  The button exists only in the except
\* branch, so the run reaches it only when read_csv raises again.
ResetClick(s) ==
    /\ pc[s] = "idle"
    /\ "reset_button" \in sidebar[s]
    /\ IF PasswordOk(pass_input[s], real_password) /\ file.exists /\ ReadRaises(file)
       THEN /\ pc' = [pc EXCEPT ![s] = "reset_remove"]
            /\ UNCHANGED sidebar
       ELSE /\ sidebar' = [sidebar EXCEPT ![s] =
                              AdminSidebar(pass_input[s], real_password, file)]
            /\ UNCHANGED pc
    /\ UNCHANGED <<real_password, run, feature_cols, file, clock, pass_input, session_state,
                   local, input_data, input_df, hist, saved, readBack>>

\* app.py 183-184: os.remove, then st.rerun().  On a file that is gone
\* os.remove raises FileNotFoundError and the run ends there.
ResetRemove(s) ==
    /\ pc[s] = "reset_remove"
    /\ IF file.exists
       THEN /\ file' = Absent
            /\ pc' = [pc EXCEPT ![s] = "rerun"]
            /\ hist' = [hist EXCEPT !.pristine = FALSE, !.sinceReset = 0]
            /\ UNCHANGED sidebar
       ELSE /\ pc' = [pc EXCEPT ![s] = "idle"]
            /\ sidebar' = [sidebar EXCEPT ![s] = {"welcome", "file_error", "exception"}]
            /\ UNCHANGED <<file, hist>>
    /\ UNCHANGED <<real_password, run, feature_cols, clock, pass_input, session_state, local,
                   input_data, input_df, saved, readBack>>

\* ------------------------------------------------------- the specification
\* A log file left by an earlier run of the app whose bytes no longer decode.
CorruptFile == FileOf(<<HeaderLine(cols_order), <<Field(FALSE, BadBytes)>>>>)

InitialFiles == {Absent, CorruptFile}

TrainedSchema == LoadAssets(ProducedCols \o <<"Loan_Status">>)

InitSessions ==
    /\ clock = 0
    /\ pass_input = [s \in Sessions |-> ""]
    /\ session_state = [s \in Sessions |-> NoState]
    /\ pc = [s \in Sessions |-> "idle"]
    /\ local = [s \in Sessions |-> NoLocal]
    /\ run = [s \in Sessions |-> NoRun]
    /\ sidebar = [s \in Sessions |-> {}]
    /\ input_data = [s \in Sessions |-> <<>>]
    /\ input_df = [s \in Sessions |-> NoFrame]
    /\ saved = NoFrame
    /\ readBack = [done |-> FALSE, df |-> NoFrame]

Init ==
    /\ real_password \in Secrets
    /\ feature_cols = TrainedSchema
    /\ file \in InitialFiles
    /\ InitSessions
    /\ hist = [appended |-> <<>>,
               writers |-> {}, predicted |-> {}, discarded |-> FALSE,
               pristine |-> ~file.exists, sinceReset |-> -1]

Next ==
    \E s \in Sessions :
        \/ \E p \in Passwords : EnterPassword(s, p)
        \/ \E conf \in Confidences : Analyze(s, "Al", DefaultForm, 1, conf)
        \/ \E sugs \in Suggestions : FeedbackSubmit(s, clock, 5, "Yes", sugs)
        \/ FeedbackWrite(s)
        \/ Rerun(s)
        \/ \E edit \in Edits : SaveClick(s, edit)
        \/ SaveWrite(s)
        \/ ResetClick(s)
        \/ ResetRemove(s)

Spec == Init /\ [][Next]_vars

\* ------------------------------------------- the analysis handler on its own
\* One session pressing ANALYZE ELIGIBILITY with every selection of the form,
\* against every schema load_assets may have loaded.
InitAnalyze ==
    /\ real_password = "admin123"
    /\ feature_cols \in {LoadAssets(h) : h \in DataFileHeaders}
    /\ file = Absent
    /\ InitSessions
    /\ hist = [appended |-> <<>>, writers |-> {}, predicted |-> {}, discarded |-> FALSE,
               pristine |-> TRUE, sinceReset |-> -1]

NextAnalyze ==
    \E form \in AllForms, conf \in Confidences : Analyze("s1", "Al", form, 1, conf)

SpecAnalyze == InitAnalyze /\ [][NextAnalyze]_vars

\* The sessions pressing ANALYZE ELIGIBILITY under every name, the form at its
\* defaults, the model answering either way.
InitName ==
    /\ real_password = "admin123"
    /\ feature_cols = TrainedSchema
    /\ file = Absent
    /\ InitSessions
    /\ hist = [appended |-> <<>>, writers |-> {}, predicted |-> {}, discarded |-> FALSE,
               pristine |-> TRUE, sinceReset |-> -1]

NextName ==
    \E s \in Sessions, user_name \in Names, prediction \in {0, 1}, conf \in Confidences :
        Analyze(s, user_name, DefaultForm, prediction, conf)

SpecName == InitName /\ [][NextName]_vars

\* ------------------------------------------------ the log's write and read
\* The admin path alone, one session and nothing in between: Save Changes
\* writes a frame (app.py 177), the rerun reads the file (app.py 169-171).
UserCells == {Str("Al"), Str("7")}
OpinionCells == {Str("Yes"), Str("No")}
SuggestionCells == {Str("slow, but ok"), Str("N/A"), Str(""), NaN}

\* Entries the editor can hold: a timestamp, a name, the amounts, the verdict,
\* the confidence, a rating, an opinion, a suggestion.
EditorRows ==
    { <<Str(Timestamp(0)), u, Num(75000), Num(500000), Str(ResText(1)), Num(8750),
        Num(5), o, g>> : u \in UserCells, o \in OpinionCells, g \in SuggestionCells }

RECURSIVE SeqsUpTo(_, _)
SeqsUpTo(S, n) ==
    IF n = 0 THEN {<<>>}
    ELSE SeqsUpTo(S, n - 1)
           \cup {Append(q, x) : q \in {r \in SeqsUpTo(S, n - 1) : Len(r) = n - 1}, x \in S}

SaveEdited(edited_df) ==
    /\ file' = WriteNew(edited_df)
    /\ saved' = edited_df
    /\ readBack' = [done |-> FALSE, df |-> NoFrame]
    /\ UNCHANGED <<real_password, feature_cols, clock, pass_input, session_state, pc,
                   local, run, sidebar, input_data, input_df, hist>>

ReadSaved ==
    /\ file.exists
    /\ ~readBack.done
    /\ ~ReadRaises(file)
    /\ readBack' = [done |-> TRUE, df |-> ReadAll(file)]
    /\ UNCHANGED <<real_password, feature_cols, file, clock, pass_input, session_state, pc,
                   local, run, sidebar, input_data, input_df, hist, saved>>

InitLog == InitName

NextLog ==
    \/ \E rows \in SeqsUpTo(EditorRows, MaxRows) :
          SaveEdited([cols |-> cols_order, rows |-> rows])
    \/ ReadSaved

SpecLog == InitLog /\ [][NextLog]_vars

\* ------------------------------------------------------------------ claims
Unlocked(s) == "welcome" \in sidebar[s]
WrongPassword(s) == pass_input[s] # "" /\ pass_input[s] # real_password

\* C1: the admin console is unlocked (log shown, Save and Reset at hand, a
\* Save or Reset under way) only in a session whose password input equals the
\* configured secret, whatever was typed before.
C1_UnlockedOnlyOnMatch ==
    \A s \in Sessions :
        (Unlocked(s) \/ sidebar[s] # {} \/ pc[s] \in {"save_write", "reset_remove"})
            => pass_input[s] = real_password

\* One session has the editor and its Save button after a match while the
\* other sits locked on a wrong password, under a configured secret.
C1_Witness ==
    /\ real_password # "admin123"
    /\ \E s, u \in Sessions :
          /\ "save_button" \in sidebar[s] /\ pass_input[s] = real_password
          /\ pass_input[u] = "admin123" /\ sidebar[u] = {}

\* What the file must hold after the appends recorded in hist.appended.
ExpectedLog(rows) ==
    <<HeaderLine(cols_order)>> \o ToCsvLines([cols |-> cols_order, rows |-> rows], FALSE)

\* C2: from an absent file and with no Save or Reset, after N appends the
\* file is the header row plus the N entries in the order they were written,
\* and the admin's read returns N entries.
C2_AppendsAccumulate ==
    hist.pristine =>
        IF hist.appended = <<>> THEN ~file.exists
        ELSE /\ file.exists
             /\ file.lines = ExpectedLog(hist.appended)
             /\ Len(ReadAll(file).rows) = Len(hist.appended)

\* C3: no Save discards an entry that was appended after the read the Save
\* is based on.
C3_SaveKeepsLaterAppends == ~hist.discarded

\* A name of nothing but blanks.
IsBlank(name) == \A i \in 1..Len(name) : SubSeq(name, i, i) = " "

\* C4: an ANALYZE press under a blank name shows the name error, does not
\* call the model and stores no result; a session that only ever pressed it
\* under blank names has no 'res' and has handed no row to the model.
C4_BlankNameRejected ==
    \A s \in Sessions :
        /\ (run[s].click = "analyze" /\ IsBlank(run[s].name))
              => (~run[s].predicted /\ ~run[s].stored /\ run[s].msg = "name_error")
        /\ (run[s].click = "analyze" /\ ~IsBlank(run[s].name))
              => (run[s].predicted /\ session_state[s].has_res
                    /\ session_state[s].user_data.name = run[s].name)
        /\ (run[s].click = "none" \/ s \notin hist.predicted)
              => (~session_state[s].has_res /\ input_df[s] = NoFrame)

\* A session that analysed under a name and then pressed again under blanks,
\* the earlier result still in place.
C4_Witness ==
    \E s \in Sessions :
        /\ run[s].click = "analyze" /\ run[s].name = "  "
        /\ session_state[s].has_res /\ session_state[s].user_data.name = " Al"

\* C5: a non-empty password that does not match leaves the console locked
\* and shows an "incorrect password" message; an empty one leaves it locked
\* and shows no error.
C5_WrongPasswordSignalled ==
    \A s \in Sessions :
        /\ WrongPassword(s) => (~Unlocked(s) /\ "incorrect_password" \in sidebar[s])
        /\ (pass_input[s] = "" /\ real_password # "")
              => (~Unlocked(s) /\ "incorrect_password" \notin sidebar[s])

\* C6: every append to the log was written by a session that had analysed
\* successfully, there are no more appends than Submit presses, and with no
\* Submit written the log file stays away however many analyses succeeded.
C6_AppendOnlyAfterAnalysis ==
    /\ hist.writers \subseteq hist.predicted
    /\ \A s \in hist.writers : session_state[s].has_res
    /\ \A s \in Sessions : pc[s] = "fb_write" => s \in hist.predicted
    /\ Len(hist.appended) <= clock
    /\ (hist.pristine /\ hist.appended = <<>>) => ~file.exists

\* One session has written feedback after its analysis; the other has
\* analysed and written nothing.
C6_Witness ==
    \E s, u \in Sessions :
        /\ s \in hist.writers /\ u \in hist.predicted /\ u \notin hist.writers
        /\ Len(hist.appended) = 1 /\ hist.pristine /\ file.exists

\* How a cell prints: quoting and the type a column was read as do not count.
Render(v) == IF v.t = "num" THEN ToString(v.n) ELSE v.s

SameEntries(a, b) ==
    /\ a.cols = b.cols
    /\ Len(a.rows) = Len(b.rows)
    /\ \A i \in 1..Len(a.rows) : \A j \in 1..Len(a.cols) :
          Render(a.rows[i][j]) = Render(b.rows[i][j])

\* C7: the admin's read after a Save returns the saved entries, in order and
\* in cols_order, up to quoting and number formatting.
C7_SaveReadRoundTrip == readBack.done => SameEntries(saved, readBack.df)

\* C8: after Reset removed a file read_csv raises on, the file is gone; the
\* next append leaves it as the header row plus that one entry.
C8_ResetThenAppendIsClean ==
    /\ hist.sinceReset = 0 => ~file.exists
    /\ hist.sinceReset = 1 =>
          file.lines = ExpectedLog(<<hist.appended[Len(hist.appended)]>>)

DictHas(d, name) == \E j \in 1..Len(d) : d[j][1] = name
DictGet(d, name) == d[CHOOSE j \in 1..Len(d) : d[j][1] = name][2]

\* C9: the row handed to the model has exactly the schema's columns in the
\* schema's order, each with the transform's value, or 0 where the transform
\* has no such column.
C9_RowMatchesSchema ==
    \A s \in hist.predicted :
        /\ input_df[s].cols = feature_cols
        /\ Len(input_df[s].rows) = 1
        /\ Len(input_df[s].rows[1]) = Len(feature_cols)
        /\ \A j \in 1..Len(feature_cols) :
              input_df[s].rows[1][j] =
                  IF DictHas(input_data[s], feature_cols[j])
                  THEN DictGet(input_data[s], feature_cols[j])
                  ELSE FNum(0, 1)

\* A row built against a drifted schema: a column the transform does not
\* produce is there (as 0) and a produced column is not.
C9_Witness ==
    \E s \in hist.predicted :
        /\ \E j \in 1..Len(feature_cols) :
              /\ ~DictHas(input_data[s], feature_cols[j])
              /\ input_df[s].rows[1][j] = FNum(0, 1)
        /\ \E j \in 1..Len(input_data[s]) :
              ColumnIndex(feature_cols, input_data[s][j][1]) = 0
        /\ \E j \in 1..Len(feature_cols) :
              /\ feature_cols[j] = "Property_Area_Semiurban"
              /\ input_df[s].rows[1][j] = FNum(1, 1)

Ind(d, name) == DictGet(d, name).a

\* C10: in the encoded selections at most one Property_Area indicator and at
\* most one Dependents indicator is 1, and every indicator is 0 or 1.
C10_OneHotAtMostOne ==
    \A s \in hist.predicted :
        LET d == input_data[s]
        IN  /\ \A name \in {"Gender_Male", "Married_Yes", "Education_Not Graduate",
                            "Self_Employed_Yes", "Property_Area_Semiurban",
                            "Property_Area_Urban", "Dependents_1", "Dependents_2",
                            "Dependents_3+"} :
                   DictGet(d, name) \in {FNum(0, 1), FNum(1, 1)}
            /\ Ind(d, "Property_Area_Semiurban") + Ind(d, "Property_Area_Urban") <= 1
            /\ Ind(d, "Dependents_1") + Ind(d, "Dependents_2") + Ind(d, "Dependents_3+") <= 1

\* Semiurban with three or more dependents: one indicator of each group set.
C10_Witness ==
    \E s \in hist.predicted :
        /\ Ind(input_data[s], "Property_Area_Semiurban") = 1
        /\ Ind(input_data[s], "Property_Area_Urban") = 0
        /\ Ind(input_data[s], "Dependents_3+") = 1
        /\ Ind(input_data[s], "Dependents_1") + Ind(input_data[s], "Dependents_2") = 0
====
